---- MODULE Spec2Model ----
(***************************************************************************)
(* A model of wrpl_extractor.py: the fixed-offset header decoder           *)
(* (ReplayParser._parse_header), the gateway to the external decoding      *)
(* service (ReplayParser._parse_blk_data), the correlation of battle       *)
(* statistics with player metadata (ReplayParser._create_replay_data) and  *)
(* the batch driver (main, process_directory, process_single_file).        *)
(*                                                                         *)
(* Bytes are integers 0..255.  Text decoded from the buffer is a sequence  *)
(* of one-character strings.  Identity strings (the results of Python's    *)
(* str()) are TLA+ strings.  A value of the dynamically typed result tree  *)
(* is a record [t, n, f, s, d]: t is the Python type, n the integer (or    *)
(* the integer part of a float, or 0/1 of a bool), f the tenths digit of  *)
(* a float, s the text of a str, d the entries of a dict or a list.        *)
(***************************************************************************)
EXTENDS Integers, Sequences, FiniteSets, TLC

VARIABLES
  pc,            \* the statement the program is at
  caller,        \* who called the function being run: "main" or "unit"
  raised,        \* the exception in flight or last raised in this file, or "none"
  buffer,        \* ReplayParser._buffer
  step,          \* _parse_header: index of the next statement of HeaderProgram
  offset,        \* _parse_header: the local running offset
  fields,        \* _parse_header: the locals holding the fields read so far
  readAt,        \* for each field read so far, the offset it was read at
  touched,       \* one past the highest buffer index read so far
  header,        \* the ReplayHeader returned by _parse_header, or NoHeader
  service,       \* the state of wt_ext_cli_path on disk
  behaviour,     \* what the decoding service does with this file's block
  child,         \* the process spawned by Popen: "none", "running", "exited"
  pipes,         \* that process's stdout/stderr pipes: "none", "open", "closed"
  orphans,       \* children still running after their call returned
  tree,          \* the value _parse_blk_data returned (blk_data)
  i,             \* _create_replay_data: index into players_array
  players,       \* _create_replay_data: the local list players
  replay,        \* what parse() returned: a ReplayData, or NoReplay for None
  format,        \* args.format
  path_kind,     \* args.path is a "file" or a "dir"
  nfiles,        \* len(wrpl_files)
  idx,           \* process_directory: files attempted so far
  success_count, \* process_directory: success_count
  fatal,         \* files so far whose processing raised a fatal-for-file error
  export_fails,  \* whether writing this file's output raises
  exit_code      \* the status main exits with, or -1 while running

ctl == <<pc, caller, raised>>
hvars == <<buffer, step, offset, fields, readAt, touched, header>>
gvars == <<service, behaviour, child, pipes, orphans, tree>>
cvars == <<i, players, replay>>
bvars == <<format, path_kind, nfiles, idx, success_count, fatal, export_fails, exit_code>>
vars == <<ctl, hvars, gvars, cvars, bvars>>

(***************************************************************************)
(* Bounds of the model.                                                    *)
(***************************************************************************)
\* bytes a buffer may hold beyond the full header extent
MaxTail == 3
\* chunks a level string of the input set is made of
MaxChunks == 3

(***************************************************************************)
(* Bytes, text and integers.                                               *)
(***************************************************************************)
Min(a, b) == IF a < b THEN a ELSE b
Max(a, b) == IF a > b THEN a ELSE b

\* v >> (8 * k)
RECURSIVE ShiftRightBytes(_, _)
ShiftRightBytes(v, k) == IF k = 0 THEN v ELSE ShiftRightBytes(v \div 256, k - 1)

\* the n little-endian bytes of v (what the game writes for an unsigned field);
\* the values of the input set are below 2^31
LEBytes(v, n) == [k \in 1..n |-> ShiftRightBytes(v, k - 1) % 256]

\* struct.unpack('<I' / '<Q'): the unsigned value of little-endian bytes
RECURSIVE UnpackLE(_)
UnpackLE(bytes) ==
  IF bytes = <<>> THEN 0 ELSE Head(bytes) + 256 * UnpackLE(Tail(bytes))

\* the characters of the code points the input set uses
Chr(b) ==
  CASE b = 108 -> "l" [] b = 101 -> "e" [] b = 118 -> "v" [] b = 115 -> "s"
    [] b = 47 -> "/" [] b = 46 -> "." [] b = 98 -> "b" [] b = 105 -> "i"
    [] b = 110 -> "n" [] b = 97 -> "a" [] b = 95 -> "_" [] b = 255 -> "U+00FF"
    [] OTHER -> "?"

\* bytes.decode('utf-8') succeeds on ASCII; the only non-ASCII byte of the
\* input set, a lone 0xFF, is never valid UTF-8
Utf8Decodable(data) == \A k \in 1..Len(data) : data[k] < 128

(***************************************************************************)
(* The replay file.  A buffer is kept as its length and the values the     *)
(* game wrote; ByteAt gives the byte at an index of the file.              *)
(***************************************************************************)
MAGIC == <<229, 172, 0, 16>>

STRING_SIZES ==
  [level |-> 128, level_settings |-> 260, battle_type |-> 128,
   environment |-> 128, visibility |-> 32, loc_name |-> 128,
   battle_class |-> 128, battle_kill_streak |-> 128]

\* the minimum header extent of the format: 0x44B + 128
MinHeaderExtent == 1099 + 128

ByteAt(b, k) ==
  CASE k < 4 -> b.magic[k + 1]
    [] k >= 4 /\ k < 8 -> LEBytes(b.version, 4)[k - 3]
    [] k >= 8 /\ k < 136 -> IF k - 7 <= Len(b.level) THEN b.level[k - 7] ELSE 0
    [] k >= 684 /\ k < 688 -> LEBytes(b.rez, 4)[k - 683]
    [] k = 688 -> b.diff
    [] k >= 735 /\ k < 743 -> LEBytes(b.sid, 8)[k - 734]
    [] OTHER -> 0

\* buffer[off:off+n]: a slice stops at the end of the buffer
Slice(b, off, n) ==
  [k \in 1..(Max(Min(off + n, b.len) - off, 0)) |-> ByteAt(b, off + k - 1)]

(***************************************************************************)
(* ReplayParser._read_string and _parse_difficulty.                        *)
(***************************************************************************)
\* bytes.find(b'\x00'): the 0-based index of the first null byte, or -1
NullIndex(data) ==
  IF \E k \in 1..Len(data) : data[k] = 0
  THEN (CHOOSE k \in 1..Len(data) :
          data[k] = 0 /\ \A j \in 1..(k - 1) : data[j] # 0) - 1
  ELSE -1

DecodeText(data) ==
  IF Utf8Decodable(data)
  THEN [k \in 1..Len(data) |-> Chr(data[k])]     \* utf-8
  ELSE [k \in 1..Len(data) |-> Chr(data[k])]     \* latin-1: one char per byte

ReadStringGuard(b, off, length) == off + length > b.len

_read_string(b, off, length) ==
  IF ReadStringGuard(b, off, length) THEN <<>>
  ELSE LET data == Slice(b, off, length)
           null_index == NullIndex(data)
       IN DecodeText(IF null_index # -1 THEN SubSeq(data, 1, null_index)
                     ELSE data)

ARCADE == 0
REALISTIC == 5
SIMULATOR == 10

\* a derivation that hands the masked value on as it is
_parse_difficulty_unmapped(value) == value

_parse_difficulty(value) ==
  IF value \in {ARCADE, REALISTIC, SIMULATOR} THEN value ELSE ARCADE

\* str.replace(pat, ""): every non-overlapping occurrence, left to right
RECURSIVE Remove(_, _)
Remove(s, pat) ==
  IF Len(s) < Len(pat) THEN s
  ELSE IF SubSeq(s, 1, Len(pat)) = pat
       THEN Remove(SubSeq(s, Len(pat) + 1, Len(s)), pat)
       ELSE <<Head(s)>> \o Remove(Tail(s), pat)

LEVELS_PREFIX == <<"l", "e", "v", "e", "l", "s", "/">>
BIN_SUFFIX == <<".", "b", "i", "n">>

CleanLevel(level) == Remove(Remove(level, LEVELS_PREFIX), BIN_SUFFIX)

(***************************************************************************)
(* ReplayParser._parse_header, statement by statement.                     *)
(***************************************************************************)
HeaderProgram ==
  << [op |-> "magic", name |-> "magic",              size |-> 4],
     [op |-> "uint",  name |-> "version",            size |-> 4],
     [op |-> "str",   name |-> "level",              size |-> STRING_SIZES.level],
     [op |-> "str",   name |-> "level_settings",     size |-> STRING_SIZES.level_settings],
     [op |-> "str",   name |-> "battle_type",        size |-> STRING_SIZES.battle_type],
     [op |-> "str",   name |-> "environment",        size |-> STRING_SIZES.environment],
     [op |-> "str",   name |-> "visibility",         size |-> STRING_SIZES.visibility],
     [op |-> "uint",  name |-> "rez_offset",         size |-> 4],
     [op |-> "byte",  name |-> "difficulty_raw",     size |-> 1],
     [op |-> "skip",  name |-> "pad",                size |-> 35],
     [op |-> "uint",  name |-> "session_type",       size |-> 4],
     [op |-> "skip",  name |-> "pad",                size |-> 7],
     [op |-> "uint",  name |-> "session_id_int",     size |-> 8],
     [op |-> "skip",  name |-> "pad",                size |-> 4],
     [op |-> "uint",  name |-> "m_set_size",         size |-> 4],
     [op |-> "skip",  name |-> "pad",                size |-> 32],
     [op |-> "str",   name |-> "loc_name",           size |-> STRING_SIZES.loc_name],
     [op |-> "uint",  name |-> "start_time",         size |-> 4],
     [op |-> "uint",  name |-> "time_limit",         size |-> 4],
     [op |-> "uint",  name |-> "score_limit",        size |-> 4],
     [op |-> "skip",  name |-> "pad",                size |-> 48],
     [op |-> "str",   name |-> "battle_class",       size |-> STRING_SIZES.battle_class],
     [op |-> "str",   name |-> "battle_kill_streak", size |-> STRING_SIZES.battle_kill_streak] >>

FieldNames == {HeaderProgram[k].name : k \in 1..Len(HeaderProgram)} \ {"pad"}

\* the locals before anything is read; difficulty is set with difficulty_raw
NoFields ==
  [magic |-> <<>>, version |-> 0, level |-> <<>>, level_settings |-> <<>>,
   battle_type |-> <<>>, environment |-> <<>>, visibility |-> <<>>,
   rez_offset |-> 0, difficulty_raw |-> 0, difficulty |-> ARCADE,
   session_type |-> 0, session_id_int |-> 0, m_set_size |-> 0,
   loc_name |-> <<>>, start_time |-> 0, time_limit |-> 0, score_limit |-> 0,
   battle_class |-> <<>>, battle_kill_streak |-> <<>>]

NoHeader == [made |-> FALSE, file_size |-> 0, f |-> NoFields]

NoReads == [n \in FieldNames |-> -1]

Instr == HeaderProgram[step]

\* where a call that is over goes: back into parse(), or nowhere
Return(to) == IF caller = "main" THEN to ELSE "done"

\* an exception leaves the function; inside parse() the except clause takes it
Raise(exc) ==
  /\ raised' = exc
  /\ pc' = IF caller = "main" THEN "parse_except" ELSE "done"

\* a comparison that stops at the end of the bytes read (MAGIC.startswith)
MagicMatchesPrefix(magic) == magic = SubSeq(MAGIC, 1, Len(magic))

MagicMatches(magic) == magic = MAGIC

\* lines 333-336: magic = buffer[0:4]; compared before anything else is read
ReadMagic ==
  /\ pc = "header" /\ step <= Len(HeaderProgram) /\ Instr.op = "magic"
  /\ LET magic == Slice(buffer, offset, 4) IN
       /\ fields' = [fields EXCEPT !.magic = magic]
       /\ readAt' = [readAt EXCEPT !["magic"] = offset]
       /\ touched' = Max(touched, offset + Len(magic))
       /\ IF MagicMatches(magic)
          THEN /\ offset' = offset + 4
               /\ step' = step + 1
               /\ UNCHANGED <<pc, raised>>
          ELSE /\ Raise("ValueError")
               /\ UNCHANGED <<offset, step>>
  /\ UNCHANGED <<caller, buffer, header, gvars, cvars, bvars>>

\* struct.unpack_from needs offset + size bytes, or raises struct.error
UnpackFits(b, off, size) == off + size <= b.len

\* lines 339, 359, 372, 379, 387, 398-404: struct.unpack_from('<I' or '<Q')
ReadUInt ==
  /\ pc = "header" /\ step <= Len(HeaderProgram) /\ Instr.op = "uint"
  /\ IF UnpackFits(buffer, offset, Instr.size)
     THEN /\ fields' = [fields EXCEPT
                          ![Instr.name] = UnpackLE(Slice(buffer, offset, Instr.size))]
          /\ readAt' = [readAt EXCEPT ![Instr.name] = offset]
          /\ touched' = Max(touched, offset + Instr.size)
          /\ offset' = offset + Instr.size
          /\ step' = step + 1
          /\ UNCHANGED <<pc, raised>>
     ELSE /\ Raise("struct.error")
          /\ UNCHANGED <<fields, readAt, touched, offset, step>>
  /\ UNCHANGED <<caller, buffer, header, gvars, cvars, bvars>>

\* lines 363-366: difficulty_raw = buffer[offset], IndexError past the end
ReadByte ==
  /\ pc = "header" /\ step <= Len(HeaderProgram) /\ Instr.op = "byte"
  /\ IF offset < buffer.len
     THEN LET difficulty_raw == ByteAt(buffer, offset)
              difficulty_value == difficulty_raw % 16      \* & 0x0F
          IN /\ fields' = [fields EXCEPT
                             !.difficulty_raw = difficulty_raw,
                             !.difficulty = _parse_difficulty(difficulty_value)]
             /\ readAt' = [readAt EXCEPT ![Instr.name] = offset]
             /\ touched' = Max(touched, offset + 1)
             /\ offset' = offset + 1
             /\ step' = step + 1
             /\ UNCHANGED <<pc, raised>>
     ELSE /\ Raise("IndexError")
          /\ UNCHANGED <<fields, readAt, touched, offset, step>>
  /\ UNCHANGED <<caller, buffer, header, gvars, cvars, bvars>>

\* lines 343-356, 394, 411-415: self._read_string, which never raises
ReadString ==
  /\ pc = "header" /\ step <= Len(HeaderProgram) /\ Instr.op = "str"
  /\ fields' = [fields EXCEPT
                  ![Instr.name] = _read_string(buffer, offset, Instr.size)]
  /\ readAt' = [readAt EXCEPT ![Instr.name] = offset]
  /\ touched' = IF ReadStringGuard(buffer, offset, Instr.size) THEN touched
                ELSE Max(touched, offset + Instr.size)
  /\ offset' = offset + Instr.size
  /\ step' = step + 1
  /\ UNCHANGED <<pc, caller, raised, buffer, header, gvars, cvars, bvars>>

\* a parser that passes over a padding without advancing the offset
SkipPaddingDropped ==
  /\ pc = "header" /\ step <= Len(HeaderProgram) /\ Instr.op = "skip"
  /\ step' = step + 1
  /\ UNCHANGED <<pc, caller, raised, buffer, offset, fields, readAt, touched,
                 header, gvars, cvars, bvars>>

\* lines 369, 376, 384, 391, 408: offset += padding
SkipPadding ==
  /\ pc = "header" /\ step <= Len(HeaderProgram) /\ Instr.op = "skip"
  /\ offset' = offset + Instr.size
  /\ step' = step + 1
  /\ UNCHANGED <<pc, caller, raised, buffer, fields, readAt, touched, header,
                 gvars, cvars, bvars>>

\* lines 417-444: clean the level up and build the ReplayHeader
FinishHeader ==
  /\ pc = "header" /\ step = Len(HeaderProgram) + 1
  /\ header' = [made |-> TRUE, file_size |-> buffer.len,
                f |-> [fields EXCEPT !.level = CleanLevel(fields.level)]]
  /\ pc' = Return("blk_offset")
  /\ UNCHANGED <<caller, raised, buffer, step, offset, fields, readAt, touched,
                 gvars, cvars, bvars>>

ParseHeaderStep ==
  \/ ReadMagic
  \/ ReadUInt
  \/ ReadByte
  \/ ReadString
  \/ SkipPadding
  \/ FinishHeader

(***************************************************************************)
(* The values of the result tree (json.loads) and the Python operations    *)
(* the code applies to them.  A dict is the sequence of its <<key, value>> *)
(* pairs in insertion order, a list the sequence of <<"", item>> pairs.    *)
(***************************************************************************)
JVal(t, n, f, s, d) == [t |-> t, n |-> n, f |-> f, s |-> s, d |-> d]
JNone == JVal("NoneType", 0, 0, "", <<>>)
JInt(n) == JVal("int", n, 0, "", <<>>)
JFloat(n, f) == JVal("float", n, f, "", <<>>)
JBool(b) == JVal("bool", IF b THEN 1 ELSE 0, 0, "", <<>>)
JStr(s) == JVal("str", 0, 0, s, <<>>)
JDict(pairs) == JVal("dict", 0, 0, "", pairs)
JList(items) == JVal("list", 0, 0, "", [k \in 1..Len(items) |-> <<"", items[k]>>])
\* marks a key the input leaves out; never part of a tree
JAbsent == JVal("absent", 0, 0, "", <<>>)

\* the pairs of a dict under construction whose value is present
Present(pairs) == SelectSeq(pairs, LAMBDA p : p[2].t # "absent")

HasKey(d, key) == \E k \in 1..Len(d.d) : d.d[k][1] = key

\* dict.get(key, default)
Get(d, key, default) ==
  IF HasKey(d, key)
  THEN d.d[CHOOSE k \in 1..Len(d.d) : d.d[k][1] = key][2]
  ELSE default

\* the items of a list, the values of a dict
Items(v) == [k \in 1..Len(v.d) |-> v.d[k][2]]

Digits == <<"0", "1", "2", "3", "4", "5", "6", "7", "8", "9">>

RECURSIVE NatStr(_)
NatStr(n) == IF n < 10 THEN Digits[n + 1] ELSE NatStr(n \div 10) \o Digits[(n % 10) + 1]

IntStr(n) == IF n < 0 THEN "-" \o NatStr(-n) ELSE NatStr(n)

\* str(value)
PyStr(v) ==
  CASE v.t = "str" -> v.s
    [] v.t = "int" -> IntStr(v.n)
    [] v.t = "float" -> IntStr(v.n) \o "." \o Digits[v.f + 1]
    [] v.t = "bool" -> IF v.n = 1 THEN "True" ELSE "False"
    [] v.t = "NoneType" -> "None"
    [] v.t = "list" -> IF v.d = <<>> THEN "[]" ELSE "[...]"
    [] OTHER -> IF v.d = <<>> THEN "{}" ELSE "{...}"

\* isinstance(value, (int, float)): bool is a subclass of int
IsNumber(v) == v.t \in {"int", "float", "bool"}

\* bool(value), as `if value:` and `not value` take it
Truthy(v) ==
  CASE v.t = "str" -> v.s # ""
    [] v.t \in {"int", "bool"} -> v.n # 0
    [] v.t = "float" -> v.n # 0 \/ v.f # 0
    [] v.t = "NoneType" -> FALSE
    [] OTHER -> v.d # <<>>

(***************************************************************************)
(* Player.from_json and PlayerReplayData.from_json.                        *)
(***************************************************************************)
\* Player.from_json.get_string: the value as it is, unless absent or None
PlayerGetString(json_data, key, default) ==
  IF Get(json_data, key, JNone).t # "NoneType"
  THEN Get(json_data, key, JStr(default))
  ELSE JStr(default)

\* Player.from_json.get_int_as_string
get_int_as_string(json_data, key, default) ==
  LET value == Get(json_data, key, JNone)
  IN IF IsNumber(value) THEN IntStr(value.n) ELSE default

NormalizeSquadron(squadron_id) == IF squadron_id = "-1" THEN "" ELSE squadron_id

Player_from_json(json_data) ==
  [user_id |-> get_int_as_string(json_data, "id", ""),
   username |-> PlayerGetString(json_data, "name", ""),
   squadron_id |-> NormalizeSquadron(get_int_as_string(json_data, "clanId", "")),
   squadron_tag |-> PlayerGetString(json_data, "clanTag", ""),
   platform |-> PlayerGetString(json_data, "platform", "")]

\* PlayerReplayData.from_json.get_int
get_int(json_data, key, default) ==
  LET value == Get(json_data, key, JNone)
  IN IF IsNumber(value) THEN value.n ELSE default

\* PlayerReplayData.from_json.get_bool
get_bool(json_data, key, default) ==
  LET value == Get(json_data, key, JNone)
  IN IF value.t = "bool" THEN value.n = 1 ELSE default

PlayerReplayData_from_json(json_data) ==
  [user_id |-> PyStr(Get(json_data, "userId", JStr(""))),
   squad |-> get_int(json_data, "squadId", 0),
   auto_squad |-> get_bool(json_data, "autoSquad", FALSE),
   team |-> get_int(json_data, "team", 0),
   wait_time |-> JFloat(0, 0),
   kills |-> get_int(json_data, "kills", 0),
   ground_kills |-> get_int(json_data, "groundKills", 0),
   naval_kills |-> get_int(json_data, "navalKills", 0),
   team_kills |-> get_int(json_data, "teamKills", 0),
   ai_kills |-> get_int(json_data, "aiKills", 0),
   ai_ground_kills |-> get_int(json_data, "aiGroundKills", 0),
   ai_naval_kills |-> get_int(json_data, "aiNavalKills", 0),
   assists |-> get_int(json_data, "assists", 0),
   deaths |-> get_int(json_data, "deaths", 0),
   capture_zone |-> get_int(json_data, "captureZone", 0),
   damage_zone |-> get_int(json_data, "damageZone", 0),
   score |-> get_int(json_data, "score", 0),
   award_damage |-> get_int(json_data, "awardDamage", 0),
   missile_evades |-> get_int(json_data, "missileEvades", 0),
   lineup |-> <<>>]

(***************************************************************************)
(* ReplayParser._create_replay_data.                                       *)
(***************************************************************************)
\* bounds of the correlation inputs
MaxPlayers == 2
MaxInfos == 2

NoReplay == [made |-> FALSE, status |-> JNone, time_played |-> JNone,
             author_user_id |-> JNone, author |-> JNone, players |-> <<>>,
             blk_data |-> JNone]

\* what `for player_obj in players_array` iterates: the items of a list, the
\* keys of a dict
players_array(blk_data) ==
  LET v == Get(blk_data, "player", JList(<<>>))
  IN IF v.t = "dict" THEN [k \in 1..Len(v.d) |-> JStr(v.d[k][1])] ELSE Items(v)

\* iterating None or a number raises TypeError
NotIterable(v) == v.t \in {"NoneType", "int", "float", "bool"}

\* lines 517-521: the values of playersInfo when it is a dict, else nothing
players_info_list(blk_data) ==
  LET ui_scripts_data == Get(blk_data, "uiScriptsData", JDict(<<>>))
      players_info_object == Get(ui_scripts_data, "playersInfo", JDict(<<>>))
  IN IF players_info_object.t = "dict" THEN Items(players_info_object) ELSE <<>>

IdMatches(info, player_user_id) ==
  PyStr(Get(info, "id", JStr(""))) = player_user_id

\* lines 527-531: the index of the first entry whose id matches, 0 when none
\* does, -1 when the scan reaches an entry that is no dict (AttributeError)
RECURSIVE ScanInfos(_, _, _)
ScanInfos(infos, player_user_id, j) ==
  IF j > Len(infos) THEN 0
  ELSE IF infos[j].t # "dict" THEN -1
  ELSE IF IdMatches(infos[j], player_user_id) THEN j
  ELSE ScanInfos(infos, player_user_id, j + 1)

\* a scan that leaves the last entry looked at in place when none matches
\* (testing the loop variable info instead of player_info)
FindPlayerInfoLastScanned(infos, player_user_id) ==
  IF ScanInfos(infos, player_user_id, 1) = 0 THEN Len(infos)
  ELSE ScanInfos(infos, player_user_id, 1)

FindPlayerInfo(infos, player_user_id) == ScanInfos(infos, player_user_id, 1)

\* line 533: `if player_info:` takes None and an empty dict alike as no match
InfoAccepted(infos, j) == j > 0 /\ Truthy(infos[j])

\* lines 544-551: the names of the crafts, in the order of the mapping
CraftName(craft_value) ==
  IF craft_value.t = "str" THEN <<craft_value>>
  ELSE IF craft_value.t = "dict" /\ HasKey(craft_value, "name")
       THEN <<Get(craft_value, "name", JNone)>>
       ELSE <<>>

RECURSIVE LineupOf(_)
LineupOf(values) ==
  IF values = <<>> THEN <<>>
  ELSE CraftName(Head(values)) \o LineupOf(Tail(values))

\* `for craft_key in crafts: crafts[craft_key]` on anything but a dict
CraftsRaise(crafts) ==
  crafts.t # "dict" /\ (NotIterable(crafts) \/ Truthy(crafts))

\* a roster that takes each new record at its front
players_prepend(roster, record) == <<record>> \o roster

\* line 556: players.append((player, player_replay_data))
players_append(roster, record) == Append(roster, record)

\* lines 504-521: the top-level reads; .get on a non-dict raises AttributeError
CreateBegin ==
  /\ pc = "create"
  /\ IF tree.t # "dict" \/ Get(tree, "uiScriptsData", JDict(<<>>)).t # "dict"
     THEN Raise("AttributeError") /\ UNCHANGED <<i, players>>
     ELSE IF NotIterable(Get(tree, "player", JList(<<>>)))
     THEN Raise("TypeError") /\ UNCHANGED <<i, players>>
     ELSE /\ i' = 1
          /\ players' = <<>>
          /\ pc' = "correlate"
          /\ UNCHANGED raised
  /\ UNCHANGED <<caller, hvars, gvars, replay, bvars>>

\* lines 523-556: one battle-statistics entry; a record of the roster also
\* notes the entries it was made of: src in players_array, info in the metadata
CorrelateEntry ==
  /\ pc = "correlate" /\ i <= Len(players_array(tree))
  /\ LET player_obj == players_array(tree)[i]
         infos == players_info_list(tree)
     IN IF player_obj.t # "dict"
        THEN Raise("AttributeError") /\ UNCHANGED <<i, players>>
        ELSE LET player_user_id == PyStr(Get(player_obj, "userId", JStr("")))
                 j == FindPlayerInfo(infos, player_user_id)
             IN IF j = -1
                THEN Raise("AttributeError") /\ UNCHANGED <<i, players>>
                ELSE IF ~InfoAccepted(infos, j)
                THEN /\ i' = i + 1
                     /\ UNCHANGED <<pc, raised, players>>
                ELSE LET player_info == infos[j]
                         crafts == Get(player_info, "crafts", JDict(<<>>))
                     IN IF CraftsRaise(crafts)
                        THEN Raise("TypeError") /\ UNCHANGED <<i, players>>
                        ELSE /\ players' = players_append(players,
                                  [player |-> Player_from_json(player_info),
                                   data |-> [PlayerReplayData_from_json(player_obj)
                                     EXCEPT !.wait_time =
                                              Get(player_info, "wait_time", JFloat(0, 0)),
                                            !.lineup = LineupOf(Items(crafts))],
                                   src |-> i, info |-> j])
                             /\ i' = i + 1
                             /\ UNCHANGED <<pc, raised>>
  /\ UNCHANGED <<caller, hvars, gvars, replay, bvars>>

\* lines 504-512 and 558-567: the ReplayData (its header is the variable header)
ReplayDataOf(blk_data, roster) ==
  LET author_user_id == Get(blk_data, "authorUserId", JStr(""))
      author == Get(blk_data, "author", JStr(""))
      missing == ~Truthy(author_user_id) \/ ~Truthy(author)
  IN [made |-> TRUE,
      status |-> Get(blk_data, "status", JStr("left")),
      time_played |-> Get(blk_data, "timePlayed", JFloat(0, 0)),
      author_user_id |-> IF missing THEN JStr("-1") ELSE author_user_id,
      author |-> IF missing THEN JStr("server") ELSE author,
      players |-> roster,
      blk_data |-> blk_data]

CreateFinish ==
  /\ pc = "correlate" /\ i > Len(players_array(tree))
  /\ replay' = ReplayDataOf(tree, players)
  /\ pc' = Return("parse_return")
  /\ UNCHANGED <<caller, raised, hvars, gvars, i, players, bvars>>

CreateReplayDataStep ==
  \/ CreateBegin
  \/ CorrelateEntry
  \/ CreateFinish

(***************************************************************************)
(* ReplayParser._parse_blk_data: the gateway to the decoding service.      *)
(***************************************************************************)
\* communicate(input=blk_data, timeout=30)
TIMEOUT == 30

EmptyTree == JDict(<<>>)

\* what the service can do with a block: exit 0 with a payload, exit non-zero,
\* or still be running when the timeout expires
Behaviours ==
  {"json_empty", "json_full", "json_list", "bad_json", "bad_utf8", "nonzero", "hang"}

\* seconds the service takes to finish: past the timeout only when it hangs
ServiceSeconds(b) == IF b = "hang" THEN TIMEOUT + 1 ELSE 1

FullTree ==
  JDict(<< <<"status", JStr("success")>>,
           <<"timePlayed", JFloat(612, 5)>>,
           <<"authorUserId", JStr("1")>>,
           <<"author", JStr("a")>>,
           <<"player", JList(<< JDict(<< <<"userId", JInt(1)>>, <<"kills", JInt(2)>> >>),
                                JDict(<< <<"userId", JInt(2)>> >>) >>)>>,
           <<"uiScriptsData", JDict(<<
              <<"playersInfo", JDict(<<
                 <<"p0", JDict(<< <<"id", JInt(1)>>, <<"name", JStr("a")>>,
                                  <<"clanId", JInt(-1)>>,
                                  <<"crafts", JDict(<< <<"c0", JStr("t_34")>> >>)>> >>)>>
              >>)>> >>)>> >>)

\* json.loads(stdout.decode('utf-8')) of the payloads that parse
ServiceOutput(b) ==
  CASE b = "json_full" -> FullTree
    [] b = "json_list" -> JList(<<JInt(1)>>)
    [] OTHER -> EmptyTree

\* an offset test that lets the two ends of the range through
InvalidOffsetStrict(rez_offset, b) == rez_offset < 0 \/ rez_offset > b.len

InvalidOffset(rez_offset, b) == rez_offset <= 0 \/ rez_offset >= b.len

\* lines 448-450
BlkCheckOffset ==
  /\ pc = "blk_offset"
  /\ IF InvalidOffset(header.f.rez_offset, buffer)
     THEN tree' = EmptyTree /\ pc' = Return("create")
     ELSE pc' = "blk_exists" /\ UNCHANGED tree
  /\ UNCHANGED <<caller, raised, hvars, service, behaviour, child, pipes, orphans,
                 cvars, bvars>>

\* lines 455-459
BlkCheckExists ==
  /\ pc = "blk_exists"
  /\ IF service = "missing"
     THEN Raise("FileNotFoundError")
     ELSE pc' = "blk_spawn" /\ UNCHANGED raised
  /\ UNCHANGED <<caller, hvars, gvars, cvars, bvars>>

\* lines 473-479: Popen of a file that cannot be executed raises PermissionError
BlkSpawn ==
  /\ pc = "blk_spawn"
  /\ IF service = "not_executable"
     THEN Raise("PermissionError") /\ UNCHANGED <<child, pipes>>
     ELSE /\ child' = "running"
          /\ pipes' = "open"
          /\ pc' = "blk_communicate"
          /\ UNCHANGED raised
  /\ UNCHANGED <<caller, hvars, service, behaviour, orphans, tree, cvars, bvars>>

\* what communicate() leaves of the child when the timeout expires: it raises
\* TimeoutExpired and neither kills the child nor closes its pipes
ChildAfterTimeout == [child |-> "running", pipes |-> "open"]

\* lines 481 and 494-496: the service runs; communicate() waits for it
BlkCommunicate ==
  /\ pc = "blk_communicate"
  /\ \E b \in Behaviours :
       /\ behaviour' = b
       /\ IF ServiceSeconds(b) > TIMEOUT
          THEN /\ child' = ChildAfterTimeout.child
               /\ pipes' = ChildAfterTimeout.pipes
               /\ orphans' = orphans + (IF ChildAfterTimeout.child = "running" THEN 1 ELSE 0)
               /\ tree' = EmptyTree
               /\ pc' = Return("create")
          ELSE /\ child' = "exited"
               /\ pipes' = "closed"
               /\ pc' = "blk_result"
               /\ UNCHANGED <<orphans, tree>>
  /\ UNCHANGED <<caller, raised, hvars, service, cvars, bvars>>

\* the exceptions of lines 491 that the except clauses of 494-499 catch
CaughtByGateway(exc) == exc \in {"TimeoutExpired", "JSONDecodeError"}

\* line 491: what decoding and parsing the payload raises, "none" if nothing
PayloadRaises(b) ==
  CASE b = "bad_utf8" -> "UnicodeDecodeError"
    [] b = "bad_json" -> "JSONDecodeError"
    [] OTHER -> "none"

\* lines 483-499
BlkResult ==
  /\ pc = "blk_result"
  /\ IF behaviour = "nonzero"
     THEN tree' = EmptyTree /\ pc' = Return("create") /\ UNCHANGED raised
     ELSE IF PayloadRaises(behaviour) = "none"
     THEN tree' = ServiceOutput(behaviour) /\ pc' = Return("create") /\ UNCHANGED raised
     ELSE IF CaughtByGateway(PayloadRaises(behaviour))
     THEN tree' = EmptyTree /\ pc' = Return("create") /\ UNCHANGED raised
     ELSE Raise(PayloadRaises(behaviour)) /\ UNCHANGED tree
  /\ UNCHANGED <<caller, hvars, service, behaviour, child, pipes, orphans, cvars, bvars>>

ParseBlkDataStep ==
  \/ BlkCheckOffset
  \/ BlkCheckExists
  \/ BlkSpawn
  \/ BlkCommunicate
  \/ BlkResult

(***************************************************************************)
(* The input buffers.                                                      *)
(***************************************************************************)
MkBuffer(len, magic, level, rez, diff) ==
  [len |-> len, magic |-> magic, version |-> 100, level |-> level,
   rez |-> rez, diff |-> diff, sid |-> 4660]

\* "levels/a.bin"
PlainLevel == <<108, 101, 118, 101, 108, 115, 47, 97, 46, 98, 105, 110>>

\* the magic, and the magic with its last or its first byte changed
Magics == {MAGIC, <<229, 172, 0, 17>>, <<0, 172, 0, 16>>}

\* "levels/", ".bin", "lev", "els/", ".b", "in", "a"
LevelChunks ==
  << <<108, 101, 118, 101, 108, 115, 47>>, <<46, 98, 105, 110>>,
     <<108, 101, 118>>, <<101, 108, 115, 47>>, <<46, 98>>, <<105, 110>>, <<97>> >>

RECURSIVE Flatten(_)
Flatten(chunks) ==
  IF chunks = <<>> THEN <<>> ELSE LevelChunks[Head(chunks)] \o Flatten(Tail(chunks))

\* a buffer of any length up to the full header and a little more
TruncatedBuffers ==
  {MkBuffer(len, magic, PlainLevel, 0, REALISTIC) :
     len \in 0..(MinHeaderExtent + MaxTail), magic \in Magics}

\* a full header whose level is made of up to MaxChunks chunks, or holds a
\* byte that is not UTF-8
LevelBuffers ==
  {MkBuffer(MinHeaderExtent, MAGIC, Flatten(c), 0, ARCADE) :
     c \in UNION {[1..n -> 1..Len(LevelChunks)] : n \in 0..MaxChunks}}
  \cup {MkBuffer(MinHeaderExtent, MAGIC, <<97, 255>>, 0, ARCADE)}

\* a full header with every value of the difficulty byte
DifficultyBuffers ==
  {MkBuffer(MinHeaderExtent, MAGIC, PlainLevel, 0, d) : d \in 0..255}

\* the files of a run: too short for the magic, a wrong magic, cut inside the
\* header, cut after score_limit, a results offset of 0 and one past the end,
\* and a whole file with its results block
RunBuffers ==
  {MkBuffer(3, MAGIC, PlainLevel, 0, ARCADE),
   MkBuffer(MinHeaderExtent + 2, <<229, 172, 0, 17>>, PlainLevel, MinHeaderExtent, ARCADE),
   MkBuffer(500, MAGIC, PlainLevel, 0, ARCADE),
   MkBuffer(923, MAGIC, PlainLevel, 900, ARCADE),
   MkBuffer(MinHeaderExtent + 2, MAGIC, PlainLevel, 0, REALISTIC),
   MkBuffer(MinHeaderExtent + 2, MAGIC, PlainLevel, MinHeaderExtent + 2, REALISTIC),
   MkBuffer(MinHeaderExtent + 2, MAGIC, PlainLevel, MinHeaderExtent, SIMULATOR)}

(***************************************************************************)
(* ReplayParser.parse, process_single_file, process_directory and main.    *)
(***************************************************************************)
\* files a directory may hold
MaxFiles == 2

Formats == {"json", "txt", "debug"}

\* lines 813-814, 304, 322-325: a new parser reads the file into its buffer
ReadFile ==
  /\ pc = "process_single_file"
  /\ \E b \in RunBuffers, readable \in BOOLEAN :
       /\ buffer' = b
       /\ IF readable THEN pc' = "header" /\ raised' = "none"
          ELSE Raise("OSError")
  /\ step' = 1 /\ offset' = 0 /\ fields' = NoFields /\ readAt' = NoReads
  /\ touched' = 0 /\ header' = NoHeader
  /\ child' = "none" /\ pipes' = "none" /\ behaviour' = "none" /\ tree' = JNone
  /\ i' = 0 /\ players' = <<>> /\ replay' = NoReplay
  /\ export_fails' = FALSE
  /\ UNCHANGED <<caller, service, orphans, format, path_kind, nfiles, idx,
                 success_count, fatal, exit_code>>

\* lines 317-320 and 816-818: parse() logs the exception and returns None
ParseExcept ==
  /\ pc = "parse_except"
  /\ replay' = NoReplay
  /\ fatal' = fatal + 1
  /\ pc' = "returned_false"
  /\ UNCHANGED <<caller, raised, hvars, gvars, i, players, format, path_kind,
                 nfiles, idx, success_count, export_fails, exit_code>>

IsStrValue(v) == v.t = "str"

\* _export_text formats time_played with :.1f and joins the lineup names
TextExportRaises(r) ==
  \/ ~IsNumber(r.time_played)
  \/ \E k \in 1..Len(r.players) :
       \E m \in 1..Len(r.players[k].data.lineup) :
         ~IsStrValue(r.players[k].data.lineup[m])

\* what _export_json, _export_text and _export_debug return when they do not
\* raise: _export_debug ends without a return statement
ExportReturns(fmt) ==
  CASE fmt = "json" -> "True"
    [] fmt = "txt" -> "True"
    [] OTHER -> "None"

\* lines 655-668: export() returns False when the exporter raises
ExportResult(fmt, r, io_fails) ==
  IF io_fails \/ (fmt = "txt" /\ TextExportRaises(r)) THEN "False"
  ELSE ExportReturns(fmt)

\* lines 816-829: the rest of process_single_file after parse() returned a
\* ReplayData; the output file may fail to be written
Export ==
  /\ pc = "parse_return"
  /\ \E io_fails \in BOOLEAN :
       /\ export_fails' = io_fails
       /\ fatal' = fatal + (IF ExportResult(format, replay, io_fails) = "False"
                            THEN 1 ELSE 0)
       /\ pc' = IF ExportResult(format, replay, io_fails) = "True"
                THEN "returned_true" ELSE "returned_false"
  /\ UNCHANGED <<caller, raised, hvars, gvars, cvars, format, path_kind, nfiles,
                 idx, success_count, exit_code>>

\* lines 900-919: main after the arguments are parsed
Main ==
  /\ pc = "main"
  /\ IF service = "missing"
     THEN pc' = "exit" /\ exit_code' = 1 /\ UNCHANGED idx
     ELSE IF path_kind = "file"
     THEN pc' = "process_single_file" /\ idx' = 1 /\ UNCHANGED exit_code
     ELSE pc' = "process_directory" /\ UNCHANGED <<idx, exit_code>>
  /\ UNCHANGED <<caller, raised, hvars, gvars, cvars, format, path_kind, nfiles,
                 success_count, fatal, export_fails>>

\* lines 916-917: sys.exit(0 if success else 1)
MainFileExit ==
  /\ pc \in {"returned_true", "returned_false"} /\ path_kind = "file"
  /\ exit_code' = IF pc = "returned_true" THEN 0 ELSE 1
  /\ success_count' = IF pc = "returned_true" THEN 1 ELSE 0
  /\ pc' = "exit"
  /\ UNCHANGED <<caller, raised, hvars, gvars, cvars, format, path_kind, nfiles,
                 idx, fatal, export_fails>>

\* lines 837-852: the next file of the directory, or the final report
ProcessDirectory ==
  /\ pc = "process_directory"
  /\ IF idx < nfiles
     THEN pc' = "process_single_file" /\ idx' = idx + 1 /\ UNCHANGED exit_code
     ELSE pc' = "exit" /\ exit_code' = 0 /\ UNCHANGED idx
  /\ UNCHANGED <<caller, raised, hvars, gvars, cvars, format, path_kind, nfiles,
                 success_count, fatal, export_fails>>

\* lines 849-850: if process_single_file(...): success_count += 1
CountSuccess ==
  /\ pc \in {"returned_true", "returned_false"} /\ path_kind = "dir"
  /\ success_count' = success_count + (IF pc = "returned_true" THEN 1 ELSE 0)
  /\ pc' = "process_directory"
  /\ UNCHANGED <<caller, raised, hvars, gvars, cvars, format, path_kind, nfiles,
                 idx, fatal, export_fails, exit_code>>

(***************************************************************************)
(* The specifications.                                                     *)
(***************************************************************************)
IdleHeader ==
  /\ buffer = MkBuffer(0, MAGIC, <<>>, 0, ARCADE)
  /\ step = 1 /\ offset = 0 /\ fields = NoFields /\ readAt = NoReads
  /\ touched = 0 /\ header = NoHeader

IdleGateway ==
  /\ behaviour = "none" /\ child = "none" /\ pipes = "none" /\ orphans = 0
  /\ tree = JNone

IdleCreate == i = 0 /\ players = <<>> /\ replay = NoReplay

IdleBatch ==
  /\ format = "json" /\ path_kind = "file" /\ nfiles = 1 /\ idx = 0
  /\ success_count = 0 /\ fatal = 0 /\ export_fails = FALSE /\ exit_code = -1

\* the whole program: main on a file or on a directory of up to MaxFiles files
Init ==
  /\ pc = "main" /\ caller = "main" /\ raised = "none"
  /\ IdleHeader /\ IdleGateway /\ IdleCreate
  /\ service \in {"missing", "not_executable", "ok"}
  /\ format \in Formats
  /\ \/ path_kind = "file" /\ nfiles = 1
     \/ path_kind = "dir" /\ nfiles \in 0..MaxFiles
  /\ idx = 0 /\ success_count = 0 /\ fatal = 0 /\ export_fails = FALSE
  /\ exit_code = -1

Next ==
  \/ Main
  \/ ProcessDirectory
  \/ ReadFile
  \/ ParseHeaderStep
  \/ ParseBlkDataStep
  \/ CreateReplayDataStep
  \/ ParseExcept
  \/ Export
  \/ MainFileExit
  \/ CountSuccess

Spec == Init /\ [][Next]_vars

\* _parse_header alone, on every buffer of the input set
InitHeader ==
  /\ pc = "header" /\ caller = "unit" /\ raised = "none"
  /\ buffer \in TruncatedBuffers \cup LevelBuffers \cup DifficultyBuffers
  /\ step = 1 /\ offset = 0 /\ fields = NoFields /\ readAt = NoReads
  /\ touched = 0 /\ header = NoHeader
  /\ service = "ok" /\ IdleGateway /\ IdleCreate /\ IdleBatch

SpecHeader == InitHeader /\ [][ParseHeaderStep]_vars

(***************************************************************************)
(* The inputs of _create_replay_data alone.                                *)
(***************************************************************************)
\* the ways an identity is written: left out, a number, a string, a float
IdValues == {JAbsent, JInt(1), JInt(2), JStr("1"), JFloat(1, 0)}

CounterValues ==
  {JAbsent, JNone, JInt(7), JFloat(2, 5), JBool(TRUE), JStr("7"), JList(<<>>),
   EmptyTree}

BoolValues == {JAbsent, JNone, JBool(TRUE), JBool(FALSE), JInt(1), JStr("true")}

ClanValues ==
  {JAbsent, JNone, JInt(-1), JInt(123), JStr("-1"), JStr("123"), JFloat(-1, 0),
   JFloat(12, 7), JBool(TRUE)}

\* a battle-statistics entry; the counter value is given to several counters
StatEntry(userId, counter, autoSquad) ==
  JDict(Present(<< <<"userId", userId>>, <<"kills", counter>>,
                   <<"deaths", counter>>, <<"score", counter>>,
                   <<"team", counter>>, <<"squadId", counter>>,
                   <<"autoSquad", autoSquad>> >>))

\* a player-metadata entry
MetaEntry(id, clanId) ==
  JDict(Present(<< <<"id", id>>, <<"name", JStr("n")>>, <<"clanId", clanId>>,
                   <<"clanTag", JStr("TAG")>> >>))

MkTree(entries, infos) ==
  JDict(<< <<"player", JList(entries)>>,
           <<"uiScriptsData", JDict(<<
              <<"playersInfo",
                JDict([k \in 1..Len(infos) |-> <<"p" \o NatStr(k), infos[k]>>])>>
           >>)>> >>)

StatEntries == {StatEntry(u, JInt(3), JAbsent) : u \in IdValues}

\* metadata entries with each identity, an empty one, and one that is no dict
MetaEntries == {MetaEntry(id, JAbsent) : id \in IdValues} \cup {EmptyTree, JStr("x")}

SeqsUpTo(S, n) == UNION {[1..m -> S] : m \in 0..n}

InitCorr ==
  /\ pc = "create" /\ caller = "unit" /\ raised = "none"
  /\ IdleHeader /\ IdleCreate /\ IdleBatch
  /\ service = "ok" /\ behaviour = "none" /\ child = "none" /\ pipes = "none"
  /\ orphans = 0
  /\ \/ \E entries \in SeqsUpTo(StatEntries, MaxPlayers),
           infos \in SeqsUpTo(MetaEntries, MaxInfos) :
          tree = MkTree(entries, infos)
     \/ \E c \in CounterValues, a \in BoolValues, clan \in ClanValues :
          tree = MkTree(<<StatEntry(JInt(1), c, a)>>, <<MetaEntry(JInt(1), clan)>>)

SpecCorr == InitCorr /\ [][CreateReplayDataStep]_vars

(***************************************************************************)
(* The properties.                                                         *)
(***************************************************************************)
\* C1: a buffer shorter than the minimum header extent (0x44B + 128) makes
\* _parse_header end with an error, without a ReplayHeader and without a read
\* past the end of the buffer.  The code makes a ReplayHeader of a buffer cut
\* anywhere after score_limit.
C1_ShortBufferIsRejected ==
  (pc = "done" /\ buffer.len < MinHeaderExtent)
    => (raised # "none" /\ ~header.made /\ touched <= buffer.len)

\* the first four bytes of the buffer are not the magic, or are not there
BadMagicInput == buffer.len < 4 \/ buffer.magic # MAGIC

\* C2: when the first four bytes differ from E5 AC 00 10 (fewer than four
\* bytes included), _parse_header ends with the magic-mismatch ValueError, and
\* no field other than the magic is ever read.
C2_InvalidMagicBeforeAnyField ==
  BadMagicInput =>
    /\ \A n \in FieldNames \ {"magic"} : readAt[n] = -1
    /\ touched <= Min(4, buffer.len)
    /\ ~header.made
    /\ (step > 1 \/ pc # "header") => (pc = "done" /\ raised = "ValueError")

C2_Witness_WrongMagicRejected ==
  /\ buffer.len >= MinHeaderExtent /\ buffer.magic # MAGIC
  /\ pc = "done" /\ raised = "ValueError" /\ readAt["magic"] = 0

\* C3: no two records of the roster carry the same identity string.  The
\* code appends a record for every matched entry, so a userId that occurs twice
\* in the battle statistics occurs twice in the roster.
C3_RosterIdentitiesDistinct ==
  \A a, b \in 1..Len(players) :
    a # b => players[a].data.user_id # players[b].data.user_id

\* C4: once the call that spawned the decoding process has returned, the
\* process has ended and its pipes are closed.  After the timeout the code
\* returns with the child running and its pipes open.
C4_ChildReleasedOnReturn ==
  pc # "blk_communicate" => (child # "running" /\ pipes # "open")

\* C5: a directory of N files of which M raised a fatal-for-file error is
\* gone through to the end and reported with exactly N - M successes, under
\* every output format.  Under the debug format no file counts as a success.
C5_BatchReportsSuccesses ==
  (pc = "exit" /\ path_kind = "dir" /\ service # "missing")
    => (idx = nfiles /\ success_count = nfiles - fatal)

\* the runtime failures of the service: a non-zero exit, a timeout, a payload
\* that is not text, not JSON, or JSON but no mapping
RuntimeFailures == {"nonzero", "hang", "bad_utf8", "bad_json", "json_list"}

\* C6: after a runtime failure of the service the gateway has returned an
\* empty tree, nothing was raised, and parse() returns a ReplayData.  A payload
\* that is not UTF-8 or not a mapping makes parse() return None.
C6_RuntimeFailureIsSoft ==
  (behaviour \in RuntimeFailures /\ pc # "blk_result")
    => /\ raised = "none"
       /\ tree = EmptyTree
       /\ pc \in {"parse_return", "returned_true", "returned_false"} => replay.made

\* C7: with the service missing or not executable the run ends with status 1
\* before any file is attempted.  The code only checks that the path exists, so
\* a service that cannot be executed fails file by file.
C7_ServiceUnavailableAbortsRun ==
  service \in {"missing", "not_executable"}
    => /\ idx = 0
       /\ pc \in {"main", "exit"}
       /\ pc = "exit" => exit_code = 1

\* C8: cleaning an already cleaned level changes nothing.  Removing every
\* occurrence once can bring the parts of a new occurrence together.
C8_LevelCleanupIdempotent ==
  header.made => CleanLevel(header.f.level) = header.f.level

\* the clanId the record's metadata entry was given, JAbsent if none
ClanIdOf(rec) == Get(players_info_list(tree)[rec.info], "clanId", JAbsent)

\* C9: a squadron id of "-1" gives an empty squadron id, and every other
\* integer or string value is passed on as its string.  The code passes numbers
\* only: a string gives the empty squadron id.
C9_SquadronIdPassesThrough ==
  \A k \in 1..Len(players) :
    LET clanId == ClanIdOf(players[k])
    IN clanId.t \in {"int", "str"} =>
         players[k].player.squadron_id =
           (IF PyStr(clanId) = "-1" THEN "" ELSE PyStr(clanId))

\* C10: every record of the roster comes from a battle-statistics entry whose
\* userId, as a string, is the id, as a string, of some metadata entry; an
\* entry without such a metadata entry has no record.
C10_RosterOnlyMatchedEntries ==
  \A k \in 1..Len(players) :
    LET entry == players_array(tree)[players[k].src]
        infos == players_info_list(tree)
    IN /\ players[k].data.user_id = PyStr(Get(entry, "userId", JStr("")))
       /\ \E j \in 1..Len(infos) :
            /\ infos[j].t = "dict"
            /\ PyStr(Get(infos[j], "id", JStr(""))) =
                 PyStr(Get(entry, "userId", JStr("")))

\* two entries and metadata for the second only: the first is dropped
C10_Witness_UnmatchedDropped ==
  /\ pc = "done" /\ replay.made
  /\ Len(players_array(tree)) = 2 /\ Len(players_info_list(tree)) = 1
  /\ Len(replay.players) = 1 /\ replay.players[1].src = 2

\* the statements of _parse_blk_data that deal with the decoding service
ServiceStatements == {"blk_exists", "blk_spawn", "blk_communicate", "blk_result"}

\* C11: when rez_offset is not above 0 and below the buffer length, the
\* gateway returns an empty tree without looking for, or running, the decoding
\* service, and the record made of it has an empty roster, status "left" and
\* the authorship ("-1", "server").
C11_InvalidOffsetShortCircuits ==
  (header.made /\ (header.f.rez_offset <= 0 \/ header.f.rez_offset >= buffer.len))
    => /\ pc \notin ServiceStatements
       /\ child = "none" /\ pipes = "none" /\ behaviour = "none"
       /\ raised = "none"
       /\ pc \in {"create", "correlate", "parse_return"} => tree = EmptyTree
       /\ pc = "parse_return" =>
            /\ replay.made
            /\ replay.blk_data = EmptyTree
            /\ replay.players = <<>>
            /\ replay.status = JStr("left")
            /\ replay.author_user_id = JStr("-1")
            /\ replay.author = JStr("server")

\* a file whose offset is the buffer length is parsed to the end although the
\* service cannot be executed
C11_Witness_ParsedWithoutService ==
  /\ pc = "parse_return" /\ replay.made /\ service = "not_executable"
  /\ header.f.rez_offset = buffer.len

\* the difficulty the layout gives a byte: by its low nibble, Arcade for the rest
DifficultyOfByte(b) ==
  IF b % 16 = 5 THEN REALISTIC ELSE IF b % 16 = 10 THEN SIMULATOR ELSE ARCADE

StripAffixes(level) ==
  LET np == Len(LEVELS_PREFIX)
      a == IF Len(level) >= np /\ SubSeq(level, 1, np) = LEVELS_PREFIX
           THEN SubSeq(level, np + 1, Len(level)) ELSE level
      ns == Len(BIN_SUFFIX)
  IN IF Len(a) >= ns /\ SubSeq(a, Len(a) - ns + 1, Len(a)) = BIN_SUFFIX
     THEN SubSeq(a, 1, Len(a) - ns) ELSE a

\* C13: the level of the header is the extracted string with only a leading
\* "levels/" and only a trailing ".bin" removed; an occurrence elsewhere in
\* the string stays in place.
C13_OnlyAffixesStripped ==
  header.made => header.f.level = StripAffixes(fields.level)

\* C14: the roster follows the battle-statistics sequence: a record that
\* precedes another in the roster was made of an earlier entry of the input
\* sequence, and carries that entry's identity, whatever the order in which
\* the metadata mapping holds the matching entries.
C14_RosterFollowsStatistics ==
  /\ \A a, b \in 1..Len(players) :
       a < b => players[a].src < players[b].src
  /\ \A a \in 1..Len(players) :
       /\ players[a].src \in 1..Len(players_array(tree))
       /\ players[a].data.user_id
            = PyStr(Get(players_array(tree)[players[a].src], "userId", JStr("")))

\* two records whose metadata entries come in the opposite order of their
\* battle-statistics entries
C14_Witness_MetadataReversed ==
  /\ pc = "done" /\ replay.made /\ Len(replay.players) = 2
  /\ replay.players[1].info > replay.players[2].info
  /\ replay.players[1].src < replay.players[2].src

\* the offsets of the layout table of the format (0x000 .. 0x44B)
LayoutTable ==
  [magic |-> 0, version |-> 4, level |-> 8, level_settings |-> 136,
   battle_type |-> 396, environment |-> 524, visibility |-> 652,
   rez_offset |-> 684,          \* 0x2AC
   difficulty_raw |-> 688,      \* 0x2B0
   session_type |-> 724,        \* 0x2D4
   session_id_int |-> 735,      \* 0x2DF
   m_set_size |-> 747,          \* 0x2EB
   loc_name |-> 783,            \* 0x30F
   start_time |-> 911,          \* 0x38F
   time_limit |-> 915,          \* 0x393
   score_limit |-> 919,         \* 0x397
   battle_class |-> 971,        \* 0x3CB
   battle_kill_streak |-> 1099] \* 0x44B

\* C15: the running offset of _parse_header, advanced by the field sizes and
\* the paddings of 35, 7, 4, 32 and 48 bytes, reads every field at the offset
\* the layout table gives it (rez_offset at 0x2AC ... battle_kill_streak at
\* 0x44B) and ends at 0x4CB; the values read are those the file holds there.
C15_FieldsReadAtLayoutOffsets ==
  /\ \A n \in FieldNames : readAt[n] \in {-1, LayoutTable[n]}
  /\ header.made
       => /\ \A n \in FieldNames : readAt[n] = LayoutTable[n]
          /\ offset = LayoutTable.battle_kill_streak + 128     \* 0x4CB
          /\ header.f.rez_offset = buffer.rez
          /\ header.f.difficulty_raw = buffer.diff
          /\ header.f.session_id_int = buffer.sid
          /\ header.f.version = buffer.version

\* a parsed header whose last field was read at 0x44B
C15_Witness_WholeHeaderRead ==
  /\ pc = "done" /\ header.made /\ offset = 1227
  /\ readAt.battle_kill_streak = 1099 /\ readAt.session_id_int = 735
  /\ header.f.session_id_int = 4660

\* the source value of a key is absent or is no number: null, a boolean, a
\* string, a sequence or a mapping
NotANumber(entry, key) == Get(entry, key, JNone).t \notin {"int", "float"}

\* C16: in every record of the roster a counter whose source value is absent
\* or is not a number (null, boolean, string, sequence, mapping) is 0, and
\* auto_squad whose source value is absent or is not a boolean is false.
C16_WrongTypedValuesDefault ==
  \A a \in 1..Len(players) :
    LET entry == players_array(tree)[players[a].src]
        data == players[a].data
    IN /\ NotANumber(entry, "kills") => data.kills = 0
       /\ NotANumber(entry, "deaths") => data.deaths = 0
       /\ NotANumber(entry, "score") => data.score = 0
       /\ NotANumber(entry, "team") => data.team = 0
       /\ NotANumber(entry, "squadId") => data.squad = 0
       /\ Get(entry, "autoSquad", JNone).t # "bool" => data.auto_squad = FALSE

\* C17: in every record of the roster the identity side and the statistics
\* side carry the same identity: Player.user_id equals
\* PlayerReplayData.user_id, and both are the string the match was made on,
\* whether the metadata id is a number or a string.
C17_RecordSidesShareIdentity ==
  \A a \in 1..Len(players) :
    LET matched == PyStr(Get(players_info_list(tree)[players[a].info],
                             "id", JStr("")))
    IN /\ players[a].player.user_id = players[a].data.user_id
       /\ players[a].player.user_id = matched
       /\ players[a].data.user_id = matched

\* C18: a battle-statistics entry without a userId field is never correlated:
\* no record of the roster is made of it, also when the metadata mapping
\* holds an entry that has no id field.
C18_EntryWithoutUserIdUnmatched ==
  \A a \in 1..Len(players) :
    HasKey(players_array(tree)[players[a].src], "userId")

====
